---- MODULE Spec2Model ----
(***************************************************************************)
(* Booking / Payment status state machine of the room-rental backend:      *)
(* the booking routes (create, confirm, setStatus, cancel), the payment    *)
(* routes (vnpay/create, vnpay-return, vnpay/ipn, bank-transfer, payment   *)
(* confirm, payment listing with its backfill), the Booking and Payment    *)
(* models and the VNPay signature service.                                 *)
(*                                                                         *)
(* The store holds the sequences bookings, payments and notifications (a   *)
(* document's id is its index).  Requests are served one at a time: a      *)
(* handler runs as one atomic action that leaves the exchange it served in *)
(* `last`, and Deliver hands the response over and makes the server idle   *)
(* again.  `now` is the clock read by new Date() and Date.now, `faults`    *)
(* counts the failed saves so far, and `budget` is the number of writing   *)
(* requests the model still serves.  The last sections run two callbacks,  *)
(* and two creates, in flight together, one await at a time.               *)
(***************************************************************************)
EXTENDS Integers, Sequences, FiniteSets, TLC

VARIABLES bookings, payments, notifications, now, faults, budget, last

vars == <<bookings, payments, notifications, now, faults, budget, last>>

store == <<bookings, payments, notifications>>

----------------------------------------------------------------------------
(* Bounds of the model *)

MaxBookings == 2
MaxPayments == 3
MaxRequests == 3
MaxDate == 4
MaxFaults == 1

----------------------------------------------------------------------------
(* Users and rooms: documents the modelled routes only read *)

Users == {"t1", "t2", "l1", "l2", "ad"}

\* variant that takes every landlord for an admin
RoleLandlordAsAdmin(u) == IF u \in {"ad", "l1", "l2"} THEN "admin" ELSE "tenant"

Role(u) == CASE u = "ad" -> "admin"
             [] u \in {"l1", "l2"} -> "landlord"
             [] OTHER -> "tenant"

Rooms == {"r1", "r2"}

\* a room listed by a user whose role is tenant
OwnRooms == {"r3"}

\* r1 is bookable, r2 is switched off by its landlord, r3 is bookable
Room(r) ==
  CASE r = "r1" -> [landlord |-> "l1", status |-> "active", isAvailable |-> TRUE,
                    deposit |-> 3]
    [] r = "r2" -> [landlord |-> "l1", status |-> "inactive", isAvailable |-> FALSE,
                    deposit |-> 3]
    [] r = "r3" -> [landlord |-> "t2", status |-> "active", isAvailable |-> TRUE,
                    deposit |-> 3]

\* stays of one unit starting on each date
Stays == {<<d, d + 1>> : d \in 1..(MaxDate - 1)}

None == "none"
NoRef == <<>>

----------------------------------------------------------------------------
(* Booking model *)

BookingStatuses == {"pending", "confirmed", "deposit_paid", "active",
                    "completed", "cancelled", "expired"}

\* variant that lets an active booking be cancelled as well
canBeCancelledOrActive(b) ==
  b.status \in {"pending", "confirmed", "deposit_paid", "active"}

canBeCancelled(b) == b.status \in {"pending", "confirmed", "deposit_paid"}

\* paymentStatus.deposit and cancellation of a new Booking (0: no date)
NoDeposit == [status |-> "pending", amount |-> 0, paidAt |-> 0,
              paymentMethod |-> None, transactionId |-> NoRef]

NoCancellation == [cancelledBy |-> None, cancelledAt |-> 0, reason |-> None]

PaidDeposit(amount, method, txn) ==
  [status |-> "paid", amount |-> amount, paidAt |-> now,
   paymentMethod |-> method, transactionId |-> txn]

----------------------------------------------------------------------------
(* Payment model *)

\* the pre-save hook gives every new payment its own transactionId
TransactionId(p) == <<"TXN", p>>

\* vnpayService.generateTxnRef: a fresh reference for every payment request
GenerateTxnRef(p) == <<"BOOK", p>>

\* a gateway reference typed in by the caller of setStatus
ExternalRef == <<"EXT", 0>>

\* payment.vnpay before any gateway field was merged into it
NoRaw == [vnp_ResponseCode |-> None, vnp_TransactionNo |-> None]

\* payment.refund of a new Payment: the schema's default for refund.status
NoRefund == [amount |-> 0, reason |-> None, processedAt |-> 0, status |-> "pending"]

NewPayment(b, payer, recipient, type, amount, status, method, ref, done) ==
  [booking |-> b, payer |-> payer, recipient |-> recipient, type |-> type,
   amount |-> amount, status |-> status, paymentMethod |-> method,
   txnRef |-> ref, raw |-> NoRaw, externalTransactionId |-> None,
   processedAt |-> done, completedAt |-> done, failedAt |-> 0,
   failureReason |-> None, refund |-> NoRefund]

\* && binds tighter than ||; a refund.status that is not set is None
canBeRefunded(payment) ==
  \/ payment.status = "completed" /\ payment.refund.status = None
  \/ payment.refund.status = "pending"

\* the enum of status in the Payment schema
PaymentStatuses == {"pending", "processing", "completed", "failed", "cancelled",
                    "refunded"}

\* the enum of paymentMethod in the Payment schema
PaymentMethods == {"vnpay", "bank_transfer", "cash", "other", "pending"}

\* the validators of the Payment schema: amount has min 0, paymentMethod is
\* one of the enum
ValidPayment(payment) ==
  payment.amount >= 0 /\ payment.paymentMethod \in PaymentMethods

\* Payment.findOne(filter): the first of the matching documents, 0 when
\* there is none
FirstPayment(matching) ==
  IF matching = {} THEN 0
  ELSE CHOOSE i \in matching : \A j \in matching : i <= j

StatusOf(p) == IF p = 0 THEN None ELSE payments[p].status

----------------------------------------------------------------------------
(* Notification sink *)

Notify(recipient, type) == [recipient |-> recipient, type |-> type]

\* the outcomes of saving a batch of notifications
SinkOutcomes == IF faults < MaxFaults THEN {"ok", "down"} ELSE {"ok"}

Saved(sink, batch) == IF sink = "ok" THEN notifications \o batch ELSE notifications

Fault(sink) == IF sink = "ok" THEN faults ELSE faults + 1

----------------------------------------------------------------------------
Untouched == [bookings |-> {}, payments |-> {}]

Idle == [op |-> "idle", rsp |-> None, arg |-> None, was |-> None,
         touched |-> Untouched, notified |-> <<>>]

Init ==
  /\ bookings = <<>>
  /\ payments = <<>>
  /\ notifications = <<>>
  /\ now = 1
  /\ faults = 0
  /\ budget = MaxRequests
  /\ last = Idle

\* a request that writes reads the clock once and uses up one unit of budget
Tick == now' = now + 1 /\ budget' = budget - 1

\* the fields a handler changed in a collection, "created" for new documents
Diff(old, new) ==
  {f \in UNION {DOMAIN old[i] : i \in 1..Len(old)} :
     \E i \in 1..Len(old) : new[i][f] # old[i][f]}
  \cup (IF Len(new) # Len(old) THEN {"created"} ELSE {})

\* the exchange just served: the operation, its input, the status its target
\* had before, the response, the fields the handler changed and the
\* notifications it created
Reply(op, arg, was, rsp) ==
  last' = [op |-> op, rsp |-> rsp, arg |-> arg, was |-> was,
           touched |-> [bookings |-> Diff(bookings, bookings'),
                        payments |-> Diff(payments, payments')],
           notified |-> SubSeq(notifications', Len(notifications) + 1,
                               Len(notifications'))]

\* who the caller of a booking route is to the booking, as recorded with an
\* early return
Caller(user, booking) ==
  [actor |-> IF user = "ad" THEN "admin"
             ELSE IF user = booking.landlord THEN "landlord"
             ELSE IF user = booking.tenant THEN "tenant"
             ELSE "stranger"]

\* an early return: the handler answers and has written nothing
Reject(op, arg, was, rsp) ==
  /\ UNCHANGED <<bookings, payments, notifications, now, faults, budget>>
  /\ last' = [op |-> op, rsp |-> rsp, arg |-> arg, was |-> was,
              touched |-> Untouched, notified |-> <<>>]

\* variant that sweeps the failed payments away once the response is out
DeliverAndSweep ==
  /\ last.op # "idle"
  /\ last' = Idle
  /\ payments' = SelectSeq(payments, LAMBDA x : x.status # "failed")
  /\ UNCHANGED <<bookings, notifications, now, faults, budget>>

Deliver ==
  /\ last.op # "idle"
  /\ last' = Idle
  /\ UNCHANGED <<bookings, payments, notifications, now, faults, budget>>

----------------------------------------------------------------------------
(* POST /api/bookings *)

\* variant with strict comparisons: ranges that only touch do not overlap
OverlapsStrictly(b, checkIn, checkOut) ==
  b.checkIn < checkOut /\ b.checkOut > checkIn

Overlaps(b, checkIn, checkOut) == b.checkIn <= checkOut /\ b.checkOut >= checkIn

existingBooking(room, checkIn, checkOut) ==
  \E i \in 1..Len(bookings) :
    /\ bookings[i].room = room
    /\ bookings[i].status \in {"pending", "confirmed", "deposit_paid", "active"}
    /\ Overlaps(bookings[i], checkIn, checkOut)

\* pricing.deposit of the request body: 0 when the body leaves it out
NoPricing == 0

\* new Booking(bookingData)
NewBooking(user, room, checkIn, checkOut, deposit) ==
  [room |-> room, tenant |-> user, landlord |-> Room(room).landlord,
   checkIn |-> checkIn, checkOut |-> checkOut, status |-> "pending",
   pricing |-> [deposit |-> deposit],
   paymentStatus |-> [deposit |-> NoDeposit], cancellation |-> NoCancellation,
   updatedAt |-> now]

CreateBooking(user, room, checkIn, checkOut, pricingDeposit) ==
  LET r == Room(room)
      id == Len(bookings) + 1
      \* pricing?.deposit || room.price.deposit
      deposit == IF pricingDeposit # 0 THEN pricingDeposit ELSE r.deposit
      booking == NewBooking(user, room, checkIn, checkOut, deposit)
      payment == NewPayment(id, user, r.landlord, "deposit", deposit,
                            "pending", "pending", NoRef, 0)
  IN
  IF Role(user) # "tenant" THEN Reject("create", None, None, "403")
  ELSE IF r.status # "active" \/ ~r.isAvailable
       THEN Reject("create", None, None, "400_unavailable")
  ELSE IF r.landlord = user THEN Reject("create", None, None, "400_self")
  ELSE IF existingBooking(room, checkIn, checkOut)
       THEN Reject("create", [room |-> room, checkIn |-> checkIn, checkOut |-> checkOut],
                   None, "400_conflict")
  ELSE \E sink \in SinkOutcomes :
       /\ Len(bookings) < MaxBookings
       /\ Len(payments) < MaxPayments
       /\ budget > 0
       /\ bookings' = Append(bookings, booking)
       /\ notifications' = Saved(sink, <<Notify(user, "booking_request"),
                                         Notify(r.landlord, "booking_request")>>)
       \* a failed notification save ends the handler before the placeholder;
       \* a placeholder the Payment schema refuses is dropped by the catch block
       \* around its save
       /\ payments' = IF sink = "ok" /\ ValidPayment(payment)
                      THEN Append(payments, payment)
                      ELSE payments
       /\ Tick
       /\ faults' = Fault(sink)
       /\ Reply("create", [user |-> user, id |-> id, sink |-> sink], None,
                IF sink = "ok" THEN "201" ELSE "500")

Create == \E user \in Users, room \in Rooms, stay \in Stays :
            /\ last.op = "idle"
            /\ CreateBooking(user, room, stay[1], stay[2], NoPricing)

----------------------------------------------------------------------------
(* PUT /api/bookings/:id/confirm *)

ConfirmBooking(user, id) ==
  LET booking == bookings[id]
      p == FirstPayment({i \in 1..Len(payments) : payments[i].booking = id})
  IN
  IF Role(user) # "landlord"
  THEN Reject("confirm", Caller(user, booking), booking.status, "403")
  ELSE IF booking.landlord # user
  THEN Reject("confirm", Caller(user, booking), booking.status, "403")
  ELSE IF booking.status # "pending"
  THEN Reject("confirm", Caller(user, booking), booking.status, "400")
  ELSE \E sink \in SinkOutcomes :
       /\ budget > 0
       /\ bookings' = [bookings EXCEPT ![id].status = "confirmed", ![id].updatedAt = now]
       /\ payments' = IF p # 0 /\ payments[p].status = "pending"
                      THEN [payments EXCEPT ![p].status = "completed",
                                            ![p].completedAt = now,
                                            ![p].paymentMethod = "bank_transfer"]
                      ELSE payments
       /\ notifications' = Saved(sink, <<Notify(booking.tenant, "booking_confirmed")>>)
       /\ Tick
       /\ faults' = Fault(sink)
       /\ Reply("confirm", [user |-> user, id |-> id, sink |-> sink], booking.status,
                IF sink = "ok" THEN "200" ELSE "500")

Confirm == \E user \in Users, id \in 1..Len(bookings) :
             /\ last.op = "idle"
             /\ ConfirmBooking(user, id)

----------------------------------------------------------------------------
(* PUT /api/bookings/:id/status *)

validStatuses == {"pending", "confirmed", "deposit_paid", "active", "completed", "cancelled"}

DefaultReason == "Khong co ly do"

Reasons == {None, "changed plans"}

\* request bodies: paymentMethod and txnRef are read only for deposit_paid,
\* reason only for cancelled
StatusBodies ==
  [status : (validStatuses \cup {"expired"}) \ {"deposit_paid", "cancelled"},
   paymentMethod : {None}, txnRef : {NoRef}, reason : {None}]
  \cup {[status |-> "deposit_paid", paymentMethod |-> None, txnRef |-> NoRef,
         reason |-> None],
        [status |-> "deposit_paid", paymentMethod |-> "cash", txnRef |-> ExternalRef,
         reason |-> None]}
  \cup [status : {"cancelled"}, paymentMethod : {None}, txnRef : {NoRef},
        reason : Reasons]

SetBookingStatus(user, id, body) ==
  LET status == body.status
      booking == bookings[id]
      isAdmin == Role(user) = "admin"
      isLandlord == Role(user) = "landlord" /\ booking.landlord = user
      isTenant == Role(user) = "tenant" /\ booking.tenant = user
      oldStatus == booking.status
      cancelledBy == IF isAdmin THEN "admin" ELSE IF isTenant THEN "tenant" ELSE "landlord"
      cancellation == IF status = "cancelled"
                      THEN [cancelledBy |-> cancelledBy, cancelledAt |-> now,
                            reason |-> IF body.reason # None THEN body.reason
                                       ELSE DefaultReason]
                      ELSE booking.cancellation
      pays == status = "deposit_paid" /\ oldStatus # "deposit_paid"
      paymentMethod == IF body.paymentMethod # None THEN body.paymentMethod
                       ELSE "bank_transfer"
      found == FirstPayment({i \in 1..Len(payments) :
                               payments[i].booking = id /\ payments[i].type = "deposit"})
      p == IF found = 0 THEN Len(payments) + 1 ELSE found
      base == IF found = 0
              THEN NewPayment(id, booking.tenant, booking.landlord, "deposit",
                              booking.pricing.deposit, "completed", paymentMethod, NoRef, now)
              ELSE [payments[found] EXCEPT !.status = "completed",
                                            !.paymentMethod = paymentMethod,
                                            !.processedAt = now,
                                            !.completedAt = now]
      payment == IF body.txnRef # NoRef THEN [base EXCEPT !.txnRef = body.txnRef]
                 ELSE base
      txn == IF body.txnRef # NoRef THEN body.txnRef ELSE TransactionId(p)
      \* a payment.save() that rejects is swallowed by the catch block around
      \* the deposit steps: paymentStatus.deposit is not reached
      paid == pays /\ ValidPayment(payment)
      batch == IF oldStatus = "pending" /\ status = "confirmed"
                 THEN <<Notify(booking.tenant, "booking_confirmed")>>
               ELSE IF pays
                 THEN <<Notify(booking.tenant, "payment_received")>>
               ELSE IF status = "cancelled"
                 THEN IF cancelledBy \in {"landlord", "admin"}
                      THEN <<Notify(booking.tenant, "booking_cancelled")>>
                      ELSE <<Notify(booking.landlord, "booking_cancelled")>>
               ELSE <<>>
  IN
  IF status \notin validStatuses
  THEN Reject("setStatus", Caller(user, booking), oldStatus, "400_invalid")
  ELSE IF ~isAdmin /\ ~isLandlord /\ ~isTenant
       THEN Reject("setStatus", Caller(user, booking), oldStatus, "403")
  ELSE IF status = "confirmed" /\ booking.status # "pending"
       THEN Reject("setStatus", Caller(user, booking), oldStatus, "400_confirm")
  ELSE IF status = "cancelled" /\ ~canBeCancelled(booking)
       THEN Reject("setStatus", Caller(user, booking), oldStatus, "400_cancel")
  ELSE \E sink \in IF batch = <<>> THEN {"ok"} ELSE SinkOutcomes :
       /\ budget > 0
       /\ pays /\ found = 0 => Len(payments) < MaxPayments
       /\ payments' = IF ~paid THEN payments
                      ELSE IF found = 0 THEN Append(payments, payment)
                      ELSE [payments EXCEPT ![found] = payment]
       /\ bookings' = [bookings EXCEPT
                         ![id].status = status,
                         ![id].cancellation = cancellation,
                         ![id].paymentStatus.deposit =
                            IF paid THEN PaidDeposit(payment.amount, paymentMethod, txn)
                            ELSE @,
                         \* save() of a document with no modified path writes nothing
                         ![id].updatedAt = IF status # oldStatus THEN now ELSE @]
       /\ notifications' = Saved(sink, batch)
       /\ Tick
       /\ faults' = Fault(sink)
       /\ Reply("setStatus", [user |-> user, id |-> id, body |-> body, sink |-> sink],
                oldStatus, IF sink = "ok" THEN "200" ELSE "500")

SetStatus == \E user \in Users, id \in 1..Len(bookings), body \in StatusBodies :
               /\ last.op = "idle"
               /\ SetBookingStatus(user, id, body)

----------------------------------------------------------------------------
(* PUT /api/bookings/:id/cancel *)

CancelledReason == "Dat phong bi huy"

CancelBooking(user, id, reason) ==
  LET booking == bookings[id]
      cancelledBy == IF Role(user) = "admin" THEN "admin"
                     ELSE IF booking.tenant = user THEN "tenant"
                     ELSE IF booking.landlord = user THEN "landlord"
                     ELSE None
      p == FirstPayment({i \in 1..Len(payments) : payments[i].booking = id})
      batch == IF cancelledBy = "tenant"
                 THEN <<Notify(booking.landlord, "booking_cancelled")>>
               ELSE IF cancelledBy = "landlord"
                 THEN <<Notify(booking.tenant, "booking_cancelled")>>
               ELSE <<>>
  IN
  \* checkBookingAccess lets the admin, the tenant and the landlord through
  IF Role(user) # "admin" /\ booking.tenant # user /\ booking.landlord # user
  THEN Reject("cancel", Caller(user, booking), booking.status, "403")
  ELSE IF ~canBeCancelled(booking)
  THEN Reject("cancel", Caller(user, booking), booking.status, "400")
  ELSE IF cancelledBy = None
  THEN Reject("cancel", Caller(user, booking), booking.status, "403")
  ELSE \E sink \in IF batch = <<>> THEN {"ok"} ELSE SinkOutcomes :
       /\ budget > 0
       /\ bookings' = [bookings EXCEPT
                         ![id].status = "cancelled",
                         ![id].cancellation =
                            [cancelledBy |-> cancelledBy, cancelledAt |-> now,
                             reason |-> IF reason # None THEN reason ELSE DefaultReason],
                         ![id].updatedAt = now]
       /\ payments' = IF p # 0 /\ payments[p].status = "pending"
                      THEN [payments EXCEPT ![p].status = "failed",
                                            ![p].failedAt = now,
                                            ![p].failureReason = CancelledReason]
                      ELSE payments
       /\ notifications' = Saved(sink, batch)
       /\ Tick
       /\ faults' = Fault(sink)
       /\ Reply("cancel", [user |-> user, id |-> id, reason |-> reason, sink |-> sink],
                booking.status, IF sink = "ok" THEN "200" ELSE "500")

Cancel == \E user \in Users, id \in 1..Len(bookings), reason \in Reasons :
            /\ last.op = "idle"
            /\ CancelBooking(user, id, reason)

----------------------------------------------------------------------------
(* VNPay service *)

hashSecret == "VNPAY_HASH_SECRET"

\* HMAC-SHA512 taken as an ideal keyed hash: equal exactly for equal key and data
HMAC(secret, data) == <<secret, data>>

ResponseCodes == {"00", "24", "77"}

TransactionNo == "14000001"

\* sortObject and querystring.stringify over the parameters left after the
\* signature fields are removed: the pairs in ascending order of their keys
signData(q) == << <<"vnp_ResponseCode", q.vnp_ResponseCode>>,
                  <<"vnp_TransactionNo", q.vnp_TransactionNo>>,
                  <<"vnp_TxnRef", q.vnp_TxnRef>> >>

\* variant that accepts whatever signature the payload carries
verifyAnySignature(q) == Len(q.vnp_SecureHash) = 2

verifyPaymentResult(q) == q.vnp_SecureHash = HMAC(hashSecret, signData(q))

\* variant without the entry for code 24
getResponseMessageNo24(responseCode) ==
  CASE responseCode = "00" -> "Giao dich thanh cong"
    [] responseCode = "99" ->
         "Cac loi khac (loi con lai, khong co trong danh sach ma loi da liet ke)"
    [] OTHER -> "Loi khong xac dinh"

\* the entries of the table for the codes of the model's payloads, and 99
getResponseMessage(responseCode) ==
  CASE responseCode = "00" -> "Giao dich thanh cong"
    [] responseCode = "24" -> "Giao dich khong thanh cong do: Khach hang huy giao dich"
    [] responseCode = "99" ->
         "Cac loi khac (loi con lai, khong co trong danh sach ma loi da liet ke)"
    [] OTHER -> "Loi khong xac dinh"

parsePaymentResult(q) ==
  [isValid |-> verifyPaymentResult(q),
   txnRef |-> q.vnp_TxnRef,
   responseCode |-> q.vnp_ResponseCode,
   transactionNo |-> q.vnp_TransactionNo,
   message |-> getResponseMessage(q.vnp_ResponseCode)]

\* the gateway fields the handlers merge into payment.vnpay
Raw(q) == [vnp_ResponseCode |-> q.vnp_ResponseCode,
           vnp_TransactionNo |-> q.vnp_TransactionNo]

PayloadRefs == {GenerateTxnRef(p) : p \in 1..MaxPayments} \cup {ExternalRef}

\* payloads signed by the gateway, and the same payloads signed by a stranger
Payloads ==
  LET fields == [vnp_TxnRef : PayloadRefs, vnp_ResponseCode : ResponseCodes,
                 vnp_TransactionNo : {TransactionNo}, vnp_SecureHash : {None}]
  IN {[f EXCEPT !.vnp_SecureHash = HMAC(k, signData(f))] :
        f \in fields, k \in {hashSecret, "forged"}}

Genuine(q) == q.vnp_SecureHash[1] = hashSecret

\* the validly signed success payloads
SuccessPayloads == {q \in Payloads : Genuine(q) /\ q.vnp_ResponseCode = "00"}

----------------------------------------------------------------------------
(* POST /api/payments/vnpay/create and POST /api/payments/bank-transfer *)

PaymentTypes == {"deposit", "monthly_rent"}

CreatePayment(op, method, user, id, type) ==
  LET booking == bookings[id]
      p == Len(payments) + 1
      ref == IF method = "vnpay" THEN GenerateTxnRef(p) ELSE NoRef
  IN
  IF Role(user) # "admin" /\ booking.tenant # user
  THEN Reject(op, None, booking.status, "403")
  ELSE /\ Len(payments) < MaxPayments
       /\ budget > 0
       /\ payments' = Append(payments,
                        NewPayment(id, user, booking.landlord, type, booking.pricing.deposit,
                                   "pending", method, ref, 0))
       /\ Tick
       /\ UNCHANGED <<bookings, notifications, faults>>
       /\ Reply(op, [user |-> user, id |-> id, type |-> type], booking.status, "200")

VnpayCreate == \E user \in Users, id \in 1..Len(bookings), type \in PaymentTypes :
                 /\ last.op = "idle"
                 /\ CreatePayment("vnpayCreate", "vnpay", user, id, type)

BankTransfer == \E user \in Users, id \in 1..Len(bookings), type \in PaymentTypes :
                  /\ last.op = "idle"
                  /\ CreatePayment("bankTransfer", "bank_transfer", user, id, type)

----------------------------------------------------------------------------
(* GET /api/payments/vnpay-return: the response is the page redirected to,  *)
(* "success" or else the message handed to the failure page                *)

ReturnHandler(q) ==
  LET paymentResult == parsePaymentResult(q)
      p == FirstPayment({i \in 1..Len(payments) :
                           payments[i].txnRef = paymentResult.txnRef})
      payment == payments[p]
      b == payment.booking
      arg(sink) == [payload |-> q, genuine |-> Genuine(q), found |-> TRUE, id |-> p,
                    sink |-> sink, repeat |-> payments[p].raw = Raw(q)]
  IN
  IF ~paymentResult.isValid
  THEN Reject("return", [genuine |-> Genuine(q), found |-> p # 0], StatusOf(p),
              "Invalid signature")
  ELSE IF p = 0
  THEN Reject("return", [genuine |-> Genuine(q), found |-> FALSE], None,
              "Payment not found")
  ELSE IF paymentResult.responseCode = "00"
  THEN \E sink \in SinkOutcomes :
       /\ budget > 0
       /\ bookings' = IF payment.type = "deposit"
                      THEN [bookings EXCEPT
                              ![b].status = "deposit_paid",
                              ![b].paymentStatus.deposit =
                                 PaidDeposit(payment.amount, "vnpay", TransactionId(p)),
                              ![b].updatedAt = now]
                      ELSE bookings
       /\ notifications' = Saved(sink, <<Notify(payment.payer, "payment_received"),
                                         Notify(payment.recipient, "payment_received")>>)
       \* payment.save() comes after the notifications: a failed save of those
       \* ends the handler in its catch block
       /\ payments' = IF sink = "ok"
                      THEN [payments EXCEPT
                              ![p].status = "completed",
                              ![p].processedAt = now,
                              ![p].completedAt = now,
                              ![p].externalTransactionId = paymentResult.transactionNo,
                              ![p].raw = Raw(q)]
                      ELSE payments
       /\ Tick
       /\ faults' = Fault(sink)
       /\ Reply("return", arg(sink), payment.status,
                IF sink = "ok" THEN "success" ELSE "Payment processing error")
  ELSE /\ budget > 0
       /\ payments' = [payments EXCEPT
                         ![p].status = "failed",
                         ![p].failedAt = now,
                         ![p].failureReason = paymentResult.message]
       /\ Tick
       /\ UNCHANGED <<bookings, notifications, faults>>
       /\ Reply("return", arg("ok"), payment.status, paymentResult.message)

VnpayReturn == \E q \in Payloads : last.op = "idle" /\ ReturnHandler(q)

----------------------------------------------------------------------------
(* POST /api/payments/vnpay/ipn *)

\* variant without the guard: every success result is applied
IpnAppliesAlways(payment, responseCode) == responseCode = "00"

\* a success result is applied unless the payment is already completed
IpnApplies(payment, responseCode) ==
  responseCode = "00" /\ payment.status # "completed"

\* `saved` is the outcome of payment.save(), the handler's last write: when
\* it rejects, the catch block answers 99 and the Payment stays as it was
IpnHandler(q, saved) ==
  LET paymentResult == parsePaymentResult(q)
      p == FirstPayment({i \in 1..Len(payments) :
                           payments[i].txnRef = paymentResult.txnRef})
      payment == payments[p]
      b == payment.booking
      arg == [payload |-> q, genuine |-> Genuine(q), found |-> TRUE, id |-> p,
              repeat |-> payments[p].raw = Raw(q), store |-> saved]
      success == paymentResult.responseCode = "00"
      applies == IpnApplies(payment, paymentResult.responseCode)
      savesBooking == /\ applies
                      /\ payment.type = "deposit"
                      /\ bookings[b].status = "confirmed"
  IN
  IF ~paymentResult.isValid
  THEN Reject("ipn", [genuine |-> Genuine(q), found |-> p # 0], StatusOf(p), "97")
  ELSE IF p = 0
  THEN Reject("ipn", [genuine |-> Genuine(q), found |-> FALSE], None, "01")
  ELSE IF saved # "ok"
  THEN /\ savesBooking => budget > 0
       /\ bookings' = IF savesBooking
                      THEN [bookings EXCEPT
                              ![b].status = "deposit_paid",
                              ![b].paymentStatus.deposit =
                                 PaidDeposit(payment.amount, "vnpay", TransactionId(p)),
                              ![b].updatedAt = now]
                      ELSE bookings
       /\ IF savesBooking THEN Tick ELSE UNCHANGED <<now, budget>>
       /\ faults' = faults + 1
       /\ UNCHANGED <<payments, notifications>>
       /\ Reply("ipn", arg, payment.status, "99")
  ELSE /\ (applies \/ ~success) => budget > 0
       /\ payments' = [payments EXCEPT ![p] =
            IF applies
              THEN [@ EXCEPT !.raw = Raw(q),
                             !.status = "completed",
                             !.processedAt = now,
                             !.completedAt = now,
                             !.externalTransactionId = paymentResult.transactionNo]
            ELSE IF success
              THEN [@ EXCEPT !.raw = Raw(q)]
            ELSE [@ EXCEPT !.raw = Raw(q),
                           !.status = "failed",
                           !.failedAt = now,
                           !.failureReason = paymentResult.message]]
       /\ bookings' = IF savesBooking
                      THEN [bookings EXCEPT
                              ![b].status = "deposit_paid",
                              ![b].paymentStatus.deposit =
                                 PaidDeposit(payment.amount, "vnpay", TransactionId(p)),
                              ![b].updatedAt = now]
                      ELSE bookings
       /\ IF applies \/ ~success THEN Tick ELSE UNCHANGED <<now, budget>>
       /\ UNCHANGED <<notifications, faults>>
       /\ Reply("ipn", arg, payment.status, "00")

VnpayIpn == \E q \in Payloads : last.op = "idle" /\ IpnHandler(q, "ok")

----------------------------------------------------------------------------
(* PUT /api/payments/:id/confirm *)

ConfirmPayment(user, p) ==
  LET payment == payments[p]
      b == payment.booking
  IN
  IF Role(user) \notin {"landlord", "admin"}
  THEN Reject("paymentConfirm", None, StatusOf(IF p > Len(payments) THEN 0 ELSE p), "403")
  ELSE IF p > Len(payments)
  THEN Reject("paymentConfirm", None, None, "404")
  ELSE IF Role(user) # "admin" /\ payment.recipient # user
  THEN Reject("paymentConfirm", None, payment.status, "403")
  ELSE IF payment.status # "pending"
  THEN Reject("paymentConfirm", None, payment.status, "400")
  ELSE \E sink \in SinkOutcomes :
       /\ budget > 0
       /\ bookings' = IF payment.type = "deposit"
                      THEN [bookings EXCEPT
                              ![b].status = "deposit_paid",
                              ![b].paymentStatus.deposit =
                                 PaidDeposit(payment.amount, "bank_transfer",
                                             TransactionId(p)),
                              ![b].updatedAt = now]
                      ELSE bookings
       /\ notifications' = Saved(sink, <<Notify(payment.payer, "payment_received")>>)
       /\ payments' = IF sink = "ok"
                      THEN [payments EXCEPT ![p].status = "completed",
                                            ![p].processedAt = now,
                                            ![p].completedAt = now]
                      ELSE payments
       /\ Tick
       /\ faults' = Fault(sink)
       /\ Reply("paymentConfirm", [user |-> user, id |-> p, sink |-> sink],
                payment.status, IF sink = "ok" THEN "200" ELSE "500")

PaymentConfirm == \E user \in Users, p \in 1..Len(payments) :
                    /\ last.op = "idle"
                    /\ ConfirmPayment(user, p)

----------------------------------------------------------------------------
(* GET /api/payments: the listing and its backfill *)

limit == 10

ListQueries == {[status |-> None, page |-> 1],
                [status |-> "pending", page |-> 1],
                [status |-> None, page |-> 2]}

\* the payments the query matches, newest first
RECURSIVE Matching(_, _, _)
Matching(user, query, i) ==
  IF i = 0 THEN <<>>
  ELSE LET x == payments[i]
           hit == /\ Role(user) = "tenant" => x.payer = user
                  /\ Role(user) = "landlord" => x.recipient = user
                  /\ query.status # None => x.status = query.status
       IN (IF hit THEN <<i>> ELSE <<>>) \o Matching(user, query, i - 1)

Page(user, query) ==
  LET all == Matching(user, query, Len(payments))
      skip == (query.page - 1) * limit
  IN SubSeq(all, skip + 1, IF Len(all) < skip + limit THEN Len(all) ELSE skip + limit)

\* the deposit_paid bookings of the user with no payment on the page
bookingsWithoutPayment(user, query) ==
  LET page == Page(user, query)
      existingPaymentBookingIds == {payments[page[k]].booking : k \in 1..Len(page)}
  IN {j \in 1..Len(bookings) :
        /\ Role(user) = "tenant" => bookings[j].tenant = user
        /\ Role(user) = "landlord" => bookings[j].landlord = user
        /\ bookings[j].status = "deposit_paid"
        /\ j \notin existingPaymentBookingIds}

RECURSIVE newPayments(_, _)
newPayments(missing, j) ==
  IF j > Len(bookings) THEN <<>>
  ELSE LET booking == bookings[j]
           paidAt == booking.paymentStatus.deposit.paidAt
           at == IF paidAt # 0 THEN paidAt ELSE booking.updatedAt
       IN (IF j \in missing
           THEN <<NewPayment(j, booking.tenant, booking.landlord, "deposit",
                             booking.pricing.deposit, "completed", "bank_transfer",
                             NoRef, at)>>
           ELSE <<>>) \o newPayments(missing, j + 1)

ListPayments(user, query) ==
  LET created == newPayments(bookingsWithoutPayment(user, query), 1)
  IN /\ Len(payments) + Len(created) <= MaxPayments
     /\ created # <<>> => budget > 0
     /\ payments' = payments \o created
     /\ IF created # <<>> THEN Tick ELSE UNCHANGED <<now, budget>>
     /\ UNCHANGED <<bookings, notifications, faults>>
     /\ Reply("list", [user |-> user, created |-> Len(created)], None, "200")

List == \E user \in Users, query \in ListQueries :
          /\ last.op = "idle"
          /\ ListPayments(user, query)

----------------------------------------------------------------------------
Next ==
  \/ Create \/ Confirm \/ SetStatus \/ Cancel
  \/ VnpayCreate \/ BankTransfer \/ VnpayReturn \/ VnpayIpn \/ PaymentConfirm
  \/ List
  \/ Deliver

Spec == Init /\ [][Next]_vars

----------------------------------------------------------------------------
(* Runs one writing request longer, for the gateway routes and for the      *)
(* bookings moved by setStatus alone; and the runs of create and cancel     *)
(* over one more room                                                       *)

InitDeep ==
  /\ bookings = <<>>
  /\ payments = <<>>
  /\ notifications = <<>>
  /\ now = 1
  /\ faults = 0
  /\ budget = MaxRequests + 1
  /\ last = Idle

NextGateway ==
  \/ Create \/ Confirm
  \/ VnpayCreate \/ VnpayReturn \/ VnpayIpn
  \/ Deliver

SpecGateway == InitDeep /\ [][NextGateway]_vars

\* the deposits a request body of POST / asks for
PricingDeposits == {NoPricing, -1}

\* POST / for the rooms above and for the room a tenant listed, with and
\* without a deposit in the body
CreateAnywhere == \E user \in Users, room \in Rooms \cup OwnRooms, stay \in Stays,
                     pricingDeposit \in PricingDeposits :
                    /\ last.op = "idle"
                    /\ CreateBooking(user, room, stay[1], stay[2], pricingDeposit)

NextCreate == CreateAnywhere \/ Cancel \/ Deliver

SpecCreate == Init /\ [][NextCreate]_vars

NextStatus == Create \/ SetStatus \/ Deliver

SpecStatus == InitDeep /\ [][NextStatus]_vars

\* PUT /:id/status with the bodies above and with a paymentMethod that is not
\* in the enum of the Payment schema
MethodBodies ==
  StatusBodies \cup {[status |-> "deposit_paid", paymentMethod |-> "paypal",
                      txnRef |-> NoRef, reason |-> None]}

SetStatusAnyMethod == \E user \in Users, id \in 1..Len(bookings), body \in MethodBodies :
                        /\ last.op = "idle"
                        /\ SetBookingStatus(user, id, body)

NextDeposit == Create \/ SetStatusAnyMethod \/ Deliver

SpecDeposit == Init /\ [][NextDeposit]_vars

\* the body of a PUT /:id/status that cancels
CancelledBody(reason) ==
  [status |-> "cancelled", paymentMethod |-> None, txnRef |-> NoRef, reason |-> reason]

SetStatusCancelled == \E user \in Users, id \in 1..Len(bookings), reason \in Reasons :
                        /\ last.op = "idle"
                        /\ SetBookingStatus(user, id, CancelledBody(reason))

\* the two routes that cancel, on the bookings of create and confirm
NextCancel == Create \/ Confirm \/ Cancel \/ SetStatusCancelled \/ Deliver

SpecCancel == Init /\ [][NextCancel]_vars

\* PUT /api/payments/:id/confirm for the ids of the stored Payments and for an
\* id that no Payment has
PaymentConfirmAny == \E user \in Users, p \in 1..(Len(payments) + 1) :
                       /\ last.op = "idle"
                       /\ ConfirmPayment(user, p)

\* the payment confirmation on the payments that create, confirm and cancel
\* leave behind
NextConfirm == Create \/ Confirm \/ Cancel \/ PaymentConfirmAny \/ Deliver

SpecConfirm == Init /\ [][NextConfirm]_vars

\* the outcomes of a save in the payment store
StoreOutcomes == IF faults < MaxFaults THEN {"ok", "down"} ELSE {"ok"}

\* POST /vnpay/ipn with a payment store that may fail
VnpayIpnAnyStore == \E q \in Payloads, saved \in StoreOutcomes :
                      /\ last.op = "idle"
                      /\ IpnHandler(q, saved)

NextIpn == Create \/ Confirm \/ VnpayCreate \/ VnpayIpnAnyStore \/ Deliver

SpecIpn == InitDeep /\ [][NextIpn]_vars

----------------------------------------------------------------------------
(* Payment model: processRefund, on the payments that create, confirm and   *)
(* cancel leave behind                                                      *)

\* the amounts asked back: 0 when the caller passes none
RefundAmounts == {0, 1}

processRefund(p, amount, reason) ==
  LET payment == payments[p]
      arg == [id |-> p, amount |-> amount, reason |-> reason,
              refund |-> payment.refund]
  IN
  IF ~canBeRefunded(payment)
  THEN Reject("refund", arg, payment.status, "Payment cannot be refunded")
  ELSE /\ budget > 0
       /\ payments' = [payments EXCEPT ![p].refund =
                         [amount |-> IF amount # 0 THEN amount ELSE payment.amount,
                          reason |-> reason,
                          processedAt |-> now,
                          status |-> "processing"]]
       /\ Tick
       /\ UNCHANGED <<bookings, notifications, faults>>
       /\ Reply("refund", arg, payment.status, "saved")

Refund == \E p \in 1..Len(payments), amount \in RefundAmounts, reason \in Reasons :
            /\ last.op = "idle"
            /\ processRefund(p, amount, reason)

NextRefund == Create \/ Confirm \/ Cancel \/ Refund \/ Deliver

SpecRefund == InitDeep /\ [][NextRefund]_vars

----------------------------------------------------------------------------
(* Booking model: the amounts and the monthly plan POST / computes for a new *)
(* Booking.  A date is a year, a month counted from 0 as getMonth does, and  *)
(* a day of the month.                                                       *)

MaxDuration == 3

isLeapYear(year) == (year % 4 = 0 /\ year % 100 # 0) \/ year % 400 = 0

DaysInMonth(year, month) ==
  IF month = 1 THEN (IF isLeapYear(year) THEN 29 ELSE 28)
  ELSE IF month \in {3, 5, 8, 10} THEN 30
  ELSE 31

\* Date.prototype.setMonth: a month past December carries into the year, and
\* a day past the end of the month carries into the month after it
setMonth(date, month) ==
  LET year == date.year + (month \div 12)
      m == month % 12
      days == DaysInMonth(year, m)
  IN IF date.day <= days
     THEN [year |-> year, month |-> m, day |-> date.day]
     ELSE [year |-> year + ((m + 1) \div 12), month |-> (m + 1) % 12,
           day |-> date.day - days]

calculateTotalAmount(pricing, duration) ==
  LET monthlyTotal == pricing.monthlyRent * duration
      utilitiesTotal == pricing.utilities * duration
  IN monthlyTotal + utilitiesTotal + pricing.deposit

generateMonthlyPayments(checkInDate, duration, pricing) ==
  [i \in 1..duration |->
     LET dueDate == setMonth(checkInDate, checkInDate.month + (i - 1))
     IN [month |-> <<dueDate.year, dueDate.month + 1>>,
         amount |-> pricing.monthlyRent + pricing.utilities,
         status |-> "pending",
         dueDate |-> dueDate]]

\* the prices, durations and check-in dates of the requests
Pricings == [monthlyRent : {1, 3000000}, utilities : {0, 200000},
             deposit : {0, 3000000}]

Durations == 1..MaxDuration

CheckInDates ==
  {[year |-> y, month |-> m, day |-> d] :
     y \in {2027, 2028}, m \in {0, 10, 11}, d \in {1, 30, 31}}
  \ {[year |-> y, month |-> 10, day |-> 31] : y \in {2027, 2028}}

\* new Booking(bookingData) followed by calculateTotalAmount and
\* generateMonthlyPayments: the amounts of the Booking that POST / saves
PriceBooking(pricing, duration, checkInDate) ==
  /\ last' = [op |-> "price", rsp |-> "201",
              arg |-> [pricing |-> pricing, duration |-> duration,
                       checkInDate |-> checkInDate,
                       totalAmount |-> calculateTotalAmount(pricing, duration),
                       monthly |-> generateMonthlyPayments(checkInDate, duration,
                                                           pricing)],
              was |-> None, touched |-> Untouched, notified |-> <<>>]
  /\ UNCHANGED <<bookings, payments, notifications, now, faults, budget>>

Price == \E pricing \in Pricings, duration \in Durations, checkInDate \in CheckInDates :
           /\ last.op = "idle"
           /\ PriceBooking(pricing, duration, checkInDate)

NextPricing == Price \/ Deliver

SpecPricing == Init /\ [][NextPricing]_vars

----------------------------------------------------------------------------
(* VNPay service, character by character: a string is a sequence of         *)
(* characters, a parameter value is a string or an array of strings, and an *)
(* object is the sequence of its properties in insertion order.             *)

\* the characters of the model's keys and values, in the order of their
\* UTF-16 code units
Alphabet == <<" ", "%", "+", ",", "0", "1", "2", "4", "5", "9",
              "A", "B", "C", "R", "T", "_",
              "a", "b", "c", "d", "e", "f", "i", "m", "n", "o", "p", "s", "t",
              "u", "v", "x">>

CodeUnit(c) == CHOOSE i \in 1..Len(Alphabet) : Alphabet[i] = c

\* the comparison of Array.prototype.sort without a comparator
RECURSIVE Before(_, _)
Before(s, t) ==
  IF t = <<>> THEN FALSE
  ELSE IF s = <<>> THEN TRUE
  ELSE IF s[1] = t[1] THEN Before(Tail(s), Tail(t))
  ELSE CodeUnit(s[1]) < CodeUnit(t[1])

\* an integer index: digits without a leading zero
IsIndex(key) ==
  /\ key # <<>>
  /\ \A i \in 1..Len(key) : key[i] \in {"0", "1", "2", "4", "5", "9"}
  /\ Len(key) > 1 => key[1] # "0"

\* ascending numeric order of integer indices
IndexBefore(s, t) == Len(s) < Len(t) \/ (Len(s) = Len(t) /\ Before(s, t))

RECURSIVE Ascending(_, _)
Ascending(keys, numeric) ==
  IF keys = {} THEN <<>>
  ELSE LET first == CHOOSE k \in keys : \A other \in keys \ {k} :
                      IF numeric THEN IndexBefore(k, other) ELSE Before(k, other)
       IN <<first>> \o Ascending(keys \ {first}, numeric)

\* the order in which an object lists its own properties: integer indices in
\* ascending numeric order, then the other keys in insertion order
OwnKeys(obj) ==
  LET keys == [i \in 1..Len(obj) |-> obj[i].key]
  IN Ascending({keys[i] : i \in {j \in 1..Len(obj) : IsIndex(keys[j])}}, TRUE)
       \o SelectSeq(keys, LAMBDA k : ~IsIndex(k))

Undefined == <<"u", "n", "d", "e", "f", "i", "n", "e", "d">>

StringValue(s) == [array |-> FALSE, items |-> <<s>>]

ArrayValue(items) == [array |-> TRUE, items |-> items]

\* String(value): an array is joined with commas
RECURSIVE Join(_)
Join(items) ==
  IF items = <<>> THEN <<>>
  ELSE IF Len(items) = 1 THEN items[1]
  ELSE items[1] \o <<",">> \o Join(Tail(items))

\* String(obj[key]): undefined for a key the object does not have
Property(obj, key) ==
  IF \E i \in 1..Len(obj) : obj[i].key = key
  THEN Join(obj[CHOOSE i \in 1..Len(obj) : obj[i].key = key].value.items)
  ELSE Undefined

\* encodeURIComponent, and querystring.escape, on the characters of Alphabet
RECURSIVE encodeURIComponent(_)
encodeURIComponent(s) ==
  IF s = <<>> THEN <<>>
  ELSE (CASE s[1] = " " -> <<"%", "2", "0">>
          [] s[1] = "%" -> <<"%", "2", "5">>
          [] s[1] = "+" -> <<"%", "2", "B">>
          [] s[1] = "," -> <<"%", "2", "C">>
          [] OTHER -> <<s[1]>>) \o encodeURIComponent(Tail(s))

\* .replace(/%20/g, '+')
RECURSIVE replaceSpaces(_)
replaceSpaces(s) ==
  IF s = <<>> THEN <<>>
  ELSE IF Len(s) >= 3 /\ SubSeq(s, 1, 3) = <<"%", "2", "0">>
       THEN <<"+">> \o replaceSpaces(SubSeq(s, 4, Len(s)))
  ELSE <<s[1]>> \o replaceSpaces(Tail(s))

\* variant that keeps the insertion order of the input
sortObjectUnsorted(obj) ==
  [i \in 1..Len(obj) |->
     [key |-> encodeURIComponent(obj[i].key),
      value |-> StringValue(replaceSpaces(encodeURIComponent(
                  Property(obj, encodeURIComponent(obj[i].key)))))]]

\* the encoded keys are sorted, and each value is read from the input under
\* the encoded key
sortObject(obj) ==
  LET str == Ascending({encodeURIComponent(obj[i].key) : i \in 1..Len(obj)}, FALSE)
  IN [k \in 1..Len(str) |->
        [key |-> str[k],
         value |-> StringValue(replaceSpaces(encodeURIComponent(
                     Property(obj, str[k]))))]]

\* querystring.stringify(obj, sep) called with the object {encode: false} in
\* the place of sep: the pairs are joined by that object's string form, and
\* keys and values are escaped
separator == <<"[object Object]">>

RECURSIVE stringifyKeys(_, _)
stringifyKeys(obj, keys) ==
  IF keys = <<>> THEN <<>>
  ELSE encodeURIComponent(keys[1]) \o <<"=">>
         \o encodeURIComponent(Property(obj, keys[1]))
         \o (IF Len(keys) > 1 THEN separator ELSE <<>>)
         \o stringifyKeys(obj, Tail(keys))

stringify(obj) == stringifyKeys(obj, OwnKeys(obj))

\* process.env: a variable that is not set reads as undefined (None)
Configs == [tmnCode : {None, "TMNCODE"}, hashSecret : {None, hashSecret}]

\* crypto.createHmac throws when the key is undefined
Throws == "throws"

\* createPaymentUrl: the parameters it signs, in the order it lists them
\* (those that vary in the model); the URL it returns is taken for the
\* signature it carries
tmnCode == <<"T", "m", "n", "C", "o", "d", "e">>

vnp_TmnCode == <<"v", "n", "p", "_", "T", "m", "n", "C", "o", "d", "e">>

vnp_TxnRef == <<"v", "n", "p", "_", "T", "x", "n", "R", "e", "f">>

vnp_Amount == <<"v", "n", "p", "_", "A", "m", "o", "u", "n", "t">>

createPaymentUrl(config, txnRef, amount) ==
  LET vnpParams ==
        <<[key |-> vnp_TmnCode,
           value |-> StringValue(IF config.tmnCode = None THEN Undefined ELSE tmnCode)],
          [key |-> vnp_TxnRef, value |-> StringValue(txnRef)],
          [key |-> vnp_Amount, value |-> StringValue(amount)]>>
      data == stringify(sortObject(vnpParams))
  IN IF config.hashSecret = None
     THEN [result |-> Throws, vnp_SecureHash |-> <<>>]
     ELSE [result |-> "url", vnp_SecureHash |-> HMAC(config.hashSecret, data)]

\* verifyPaymentResult on a payload whose vnp_SecureHash is a digest, bare
\* or wrapped in an array, and whose other parameters are `params`
verifyParams(config, vnpParams) ==
  LET secureHash == vnpParams.vnp_SecureHash
      data == stringify(sortObject(vnpParams.params))
  IN IF config.hashSecret = None THEN Throws
     ELSE IF ~secureHash.array /\ secureHash.digest = HMAC(config.hashSecret, data)
     THEN "true"
     ELSE "false"

\* the parameter objects of the requests: up to MaxParams properties with
\* distinct keys
MaxParams == 2

vnp_ResponseCode == <<"v", "n", "p", "_", "R", "e", "s", "p", "o", "n", "s", "e",
                       "C", "o", "d", "e">>

ParamKeys == {vnp_ResponseCode, vnp_Amount, <<"a", " ", "b">>, <<"9">>, <<"1", "0">>}

ParamValues == {StringValue(<<"0", "0">>), ArrayValue(<< <<"0", "0">> >>),
                StringValue(<<"1", ",", "2">>), ArrayValue(<< <<"1">>, <<"2">> >>)}

ParamObjects ==
  UNION {{obj \in [1..n -> [key : ParamKeys, value : ParamValues]] :
            \A i, j \in 1..n : i # j => obj[i].key # obj[j].key} : n \in 1..MaxParams}

\* a payload the gateway signed: its vnp_SecureHash is the digest of its
\* other parameters under the shared secret
Signed(params) ==
  [vnp_SecureHash |-> [array |-> FALSE,
                       digest |-> HMAC(hashSecret, stringify(sortObject(params)))],
   params |-> params]

\* the payloads that differ from `payload` in the vnp_SecureHash value or in
\* the value of one other parameter
Changed(payload) ==
  {[payload EXCEPT !.vnp_SecureHash.array = TRUE],
   [payload EXCEPT !.vnp_SecureHash.digest = HMAC("forged", @[2])]}
  \cup UNION {{[payload EXCEPT !.params[i].value = v] :
                  v \in ParamValues \ {payload.params[i].value}} :
                i \in 1..Len(payload.params)}

\* verifyPaymentResult on a signed payload, and on the payload after a change
VerifyChanged(config, payload, changed) ==
  /\ last' = [op |-> "verify", rsp |-> verifyParams(config, changed),
              arg |-> [config |-> config, payload |-> payload, changed |-> changed],
              was |-> verifyParams(config, payload),
              touched |-> Untouched, notified |-> <<>>]
  /\ UNCHANGED <<bookings, payments, notifications, now, faults, budget>>

Verify == \E config \in Configs, params \in ParamObjects :
            \E changed \in Changed(Signed(params)) :
              /\ last.op = "idle"
              /\ VerifyChanged(config, Signed(params), changed)

\* the same properties inserted in the opposite order
Reversed(obj) == [i \in 1..Len(obj) |-> obj[Len(obj) + 1 - i]]

\* the signing steps of createPaymentUrl on one set of parameters inserted in
\* two orders
SignTwice(obj) ==
  /\ last' = [op |-> "sign", rsp |-> "signed",
              arg |-> [first |-> obj, second |-> Reversed(obj),
                       keys |-> OwnKeys(sortObject(obj)),
                       hashes |-> <<HMAC(hashSecret, stringify(sortObject(obj))),
                                    HMAC(hashSecret,
                                         stringify(sortObject(Reversed(obj))))>>],
              was |-> None, touched |-> Untouched, notified |-> <<>>]
  /\ UNCHANGED <<bookings, payments, notifications, now, faults, budget>>

Sign == \E obj \in ParamObjects : last.op = "idle" /\ SignTwice(obj)

\* createPaymentUrl under each configuration
PaymentUrl(config, txnRef, amount) ==
  /\ last' = [op |-> "createPaymentUrl",
              rsp |-> createPaymentUrl(config, txnRef, amount).result,
              arg |-> [config |-> config,
                       url |-> createPaymentUrl(config, txnRef, amount)],
              was |-> None, touched |-> Untouched, notified |-> <<>>]
  /\ UNCHANGED <<bookings, payments, notifications, now, faults, budget>>

CreateUrl == \E config \in Configs, txnRef \in {<<"B", "1">>, <<"B", "2">>},
                amount \in {<<"1", "0", "0">>, <<"2", "0", "0">>} :
               /\ last.op = "idle"
               /\ PaymentUrl(config, txnRef, amount)

NextSign == Verify \/ Sign \/ CreateUrl \/ Deliver

SpecSign == Init /\ [][NextSign]_vars

----------------------------------------------------------------------------
(* Requests in flight together.  Between two awaits a handler runs as one   *)
(* step, and the steps of the handlers in flight interleave.  `last` holds  *)
(* the handlers in flight: where each one stands, the documents it has read *)
(* and changed in memory, and the paths it has written to the store.  The   *)
(* saves succeed in these runs.                                             *)

\* the handler in flight that takes the next step, and the handler after it
Resume(i, h) == last' = [last EXCEPT !.arg.handlers[i] = h]

\* the paths a save() writes: those whose value is not the one that was read
Modified(read, doc) == {f \in DOMAIN doc : doc[f] # read[f]}

\* the stored document after a save() of `doc` with these modified paths
Written(stored, doc, paths) ==
  [f \in DOMAIN stored |-> IF f \in paths THEN doc[f] ELSE stored[f]]

NothingWritten == [payment |-> {}, booking |-> {}, notifications |-> 0]

\* a callback that was received and has not run yet
Callback(route, q) ==
  [route |-> route, req |-> q, pc |-> "findPayment", rsp |-> None,
   p |-> 0, payment |-> None, paymentPaths |-> {},
   booking |-> None, bookingPaths |-> {}, wrote |-> NothingWritten]

\* the pairs of callbacks the gateway sends for one payment
CallbackRoutes == {<<"return", "ipn">>, <<"ipn", "ipn">>}

ReceiveCallbacks ==
  \E q \in SuccessPayloads, routes \in CallbackRoutes :
    /\ last.op = "idle"
    /\ budget > 0
    /\ Tick
    /\ last' = [op |-> "callbacks", rsp |-> None,
                arg |-> [handlers |-> <<Callback(routes[1], q), Callback(routes[2], q)>>],
                was |-> None, touched |-> Untouched, notified |-> <<>>]
    /\ UNCHANGED <<bookings, payments, notifications, faults>>

\* the signature check, Payment.findOne and the changes made to the document
\* in memory before the next await
CallbackFindPayment(i) ==
  LET h == last.arg.handlers[i]
      paymentResult == parsePaymentResult(h.req)
      p == FirstPayment({k \in 1..Len(payments) :
                           payments[k].txnRef = paymentResult.txnRef})
      read == payments[p]
      success == paymentResult.responseCode = "00"
      applies == IF h.route = "return" THEN success
                 ELSE IpnApplies(read, paymentResult.responseCode)
      completed == [read EXCEPT !.status = "completed",
                                !.processedAt = now,
                                !.completedAt = now,
                                !.externalTransactionId = paymentResult.transactionNo,
                                !.raw = Raw(h.req)]
      failed == [read EXCEPT !.status = "failed",
                             !.failedAt = now,
                             !.failureReason = paymentResult.message]
      payment == IF applies THEN completed
                 ELSE IF h.route = "return" THEN failed
                 ELSE IF success THEN [read EXCEPT !.raw = Raw(h.req)]
                 ELSE [failed EXCEPT !.raw = Raw(h.req)]
  IN
  /\ h.pc = "findPayment"
  /\ UNCHANGED <<bookings, payments, notifications, now, faults, budget>>
  /\ IF ~paymentResult.isValid
     THEN Resume(i, [h EXCEPT !.pc = "done",
                              !.rsp = IF h.route = "return" THEN "Invalid signature"
                                      ELSE "97"])
     ELSE IF p = 0
     THEN Resume(i, [h EXCEPT !.pc = "done",
                              !.rsp = IF h.route = "return" THEN "Payment not found"
                                      ELSE "01"])
     ELSE Resume(i, [h EXCEPT
            !.p = p,
            !.payment = payment,
            !.paymentPaths = Modified(read, payment),
            !.pc = IF applies /\ read.type = "deposit" THEN "findBooking"
                   ELSE IF applies /\ h.route = "return" THEN "saveNotifications"
                   ELSE "savePayment"])

\* Booking.findById and the changes made to the Booking in memory: the IPN
\* handler makes them for a confirmed Booking only
CallbackFindBooking(i) ==
  LET h == last.arg.handlers[i]
      read == bookings[h.payment.booking]
      booking == [read EXCEPT
                    !.status = "deposit_paid",
                    !.paymentStatus.deposit =
                       PaidDeposit(h.payment.amount, "vnpay", TransactionId(h.p))]
  IN
  /\ h.pc = "findBooking"
  /\ UNCHANGED <<bookings, payments, notifications, now, faults, budget>>
  /\ IF h.route = "ipn" /\ read.status # "confirmed"
     THEN Resume(i, [h EXCEPT !.pc = "savePayment"])
     ELSE Resume(i, [h EXCEPT !.booking = booking,
                              !.bookingPaths = Modified(read, booking),
                              !.pc = "saveBooking"])

CallbackSaveBooking(i) ==
  LET h == last.arg.handlers[i]
      b == h.payment.booking
  IN
  /\ h.pc = "saveBooking"
  /\ bookings' = [bookings EXCEPT
                    ![b] = [Written(@, h.booking, h.bookingPaths) EXCEPT
                              !.updatedAt = now]]
  /\ UNCHANGED <<payments, notifications, now, faults, budget>>
  /\ Resume(i, [h EXCEPT !.wrote.booking = h.bookingPaths,
                         !.pc = IF h.route = "return" THEN "saveNotifications"
                                ELSE "savePayment"])

\* the return handler's two notifications
CallbackSaveNotifications(i) ==
  LET h == last.arg.handlers[i]
      batch == <<Notify(h.payment.payer, "payment_received"),
                 Notify(h.payment.recipient, "payment_received")>>
  IN
  /\ h.pc = "saveNotifications"
  /\ notifications' = notifications \o batch
  /\ UNCHANGED <<bookings, payments, now, faults, budget>>
  /\ last' = [last EXCEPT
                !.notified = @ \o batch,
                !.arg.handlers[i] = [h EXCEPT !.wrote.notifications = Len(batch),
                                              !.pc = "savePayment"]]

\* payment.save() and the response
CallbackSavePayment(i) ==
  LET h == last.arg.handlers[i]
  IN
  /\ h.pc = "savePayment"
  /\ payments' = [payments EXCEPT ![h.p] = Written(@, h.payment, h.paymentPaths)]
  /\ UNCHANGED <<bookings, notifications, now, faults, budget>>
  /\ Resume(i, [h EXCEPT
       !.wrote.payment = h.paymentPaths,
       !.pc = "done",
       !.rsp = IF h.route = "ipn" THEN "00"
               ELSE IF h.payment.status = "completed" THEN "success"
               ELSE h.payment.failureReason])

StepCallback ==
  \E i \in 1..2 :
    /\ last.op = "callbacks"
    /\ \/ CallbackFindPayment(i)
       \/ CallbackFindBooking(i)
       \/ CallbackSaveBooking(i)
       \/ CallbackSaveNotifications(i)
       \/ CallbackSavePayment(i)

\* the responses go out when every handler in flight has answered
Finished ==
  last.op \in {"callbacks", "creates"} =>
    \A i \in 1..Len(last.arg.handlers) : last.arg.handlers[i].pc = "done"

DeliverFinished == Finished /\ Deliver

NextCallbacks ==
  \/ Create \/ Confirm \/ VnpayCreate
  \/ ReceiveCallbacks \/ StepCallback
  \/ DeliverFinished

SpecCallbacks == InitDeep /\ [][NextCallbacks]_vars

\* a POST / that was received and has not run yet
Creation(user, room, stay) ==
  [route |-> "create",
   req |-> [user |-> user, room |-> room, checkIn |-> stay[1], checkOut |-> stay[2]],
   pc |-> "findRoom", rsp |-> None, id |-> 0, passed |-> FALSE]

ReceiveCreates ==
  \E users \in Users \X Users, rooms \in Rooms \X Rooms, stays \in Stays \X Stays :
    /\ last.op = "idle"
    /\ budget > 0
    /\ Len(bookings) + 2 <= MaxBookings
    /\ Len(payments) + 2 <= MaxPayments
    /\ Tick
    /\ last' = [op |-> "creates", rsp |-> None,
                arg |-> [handlers |-> <<Creation(users[1], rooms[1], stays[1]),
                                        Creation(users[2], rooms[2], stays[2])>>],
                was |-> None, touched |-> Untouched, notified |-> <<>>]
    /\ UNCHANGED <<bookings, payments, notifications, faults>>

\* authorize('tenant'), Room.findById and the checks on the room
CreateFindRoom(i) ==
  LET h == last.arg.handlers[i]
      r == Room(h.req.room)
  IN
  /\ h.pc = "findRoom"
  /\ UNCHANGED <<bookings, payments, notifications, now, faults, budget>>
  /\ IF Role(h.req.user) # "tenant"
     THEN Resume(i, [h EXCEPT !.pc = "done", !.rsp = "403"])
     ELSE IF r.status # "active" \/ ~r.isAvailable
     THEN Resume(i, [h EXCEPT !.pc = "done", !.rsp = "400_unavailable"])
     ELSE IF r.landlord = h.req.user
     THEN Resume(i, [h EXCEPT !.pc = "done", !.rsp = "400_self"])
     ELSE Resume(i, [h EXCEPT !.pc = "findExisting"])

\* Booking.findOne for a Booking of the room that overlaps
CreateFindExisting(i) ==
  LET h == last.arg.handlers[i]
  IN
  /\ h.pc = "findExisting"
  /\ UNCHANGED <<bookings, payments, notifications, now, faults, budget>>
  /\ IF existingBooking(h.req.room, h.req.checkIn, h.req.checkOut)
     THEN Resume(i, [h EXCEPT !.pc = "done", !.rsp = "400_conflict"])
     ELSE Resume(i, [h EXCEPT !.pc = "saveBooking", !.passed = TRUE])

\* variant with a unique constraint: the store refuses a Booking that overlaps
\* one it holds
CreateSaveBookingUnique(i) ==
  LET h == last.arg.handlers[i]
      id == Len(bookings) + 1
  IN
  /\ h.pc = "saveBooking"
  /\ UNCHANGED <<payments, notifications, now, faults, budget>>
  /\ IF existingBooking(h.req.room, h.req.checkIn, h.req.checkOut)
     THEN /\ UNCHANGED bookings
          /\ Resume(i, [h EXCEPT !.pc = "done", !.rsp = "500"])
     ELSE /\ bookings' = Append(bookings,
                           NewBooking(h.req.user, h.req.room, h.req.checkIn,
                                      h.req.checkOut, Room(h.req.room).deposit))
          /\ Resume(i, [h EXCEPT !.id = id, !.pc = "saveNotifications"])

\* booking.save(): nothing but the schema's validators stands in its way
CreateSaveBooking(i) ==
  LET h == last.arg.handlers[i]
      id == Len(bookings) + 1
  IN
  /\ h.pc = "saveBooking"
  /\ bookings' = Append(bookings,
                   NewBooking(h.req.user, h.req.room, h.req.checkIn, h.req.checkOut,
                              Room(h.req.room).deposit))
  /\ UNCHANGED <<payments, notifications, now, faults, budget>>
  /\ Resume(i, [h EXCEPT !.id = id, !.pc = "saveNotifications"])

CreateSaveNotifications(i) ==
  LET h == last.arg.handlers[i]
      batch == <<Notify(h.req.user, "booking_request"),
                 Notify(Room(h.req.room).landlord, "booking_request")>>
  IN
  /\ h.pc = "saveNotifications"
  /\ notifications' = notifications \o batch
  /\ UNCHANGED <<bookings, payments, now, faults, budget>>
  /\ last' = [last EXCEPT !.notified = @ \o batch,
                          !.arg.handlers[i] = [h EXCEPT !.pc = "savePayment"]]

\* the placeholder deposit Payment, and the response
CreateSavePayment(i) ==
  LET h == last.arg.handlers[i]
      payment == NewPayment(h.id, h.req.user, Room(h.req.room).landlord, "deposit",
                            bookings[h.id].pricing.deposit, "pending", "pending",
                            NoRef, 0)
  IN
  /\ h.pc = "savePayment"
  /\ payments' = IF ValidPayment(payment) THEN Append(payments, payment) ELSE payments
  /\ UNCHANGED <<bookings, notifications, now, faults, budget>>
  /\ Resume(i, [h EXCEPT !.pc = "done", !.rsp = "201"])

StepCreate ==
  \E i \in 1..2 :
    /\ last.op = "creates"
    /\ \/ CreateFindRoom(i)
       \/ CreateFindExisting(i)
       \/ CreateSaveBooking(i)
       \/ CreateSaveNotifications(i)
       \/ CreateSavePayment(i)

NextCreates == Create \/ ReceiveCreates \/ StepCreate \/ DeliverFinished

SpecCreates == Init /\ [][NextCreates]_vars

----------------------------------------------------------------------------
(* Properties *)

\* the callback just served went past the signature check and found its payment
Handled(op) == last.op = op /\ last.arg.genuine /\ last.arg.found

NonTerminal == {"pending", "confirmed", "deposit_paid", "active"}

\* the edges of the booking state diagram
Edges ==
  {<<"pending", "confirmed">>, <<"confirmed", "deposit_paid">>,
   <<"deposit_paid", "active">>, <<"active", "completed">>,
   <<"pending", "cancelled">>, <<"confirmed", "cancelled">>,
   <<"deposit_paid", "cancelled">>,
   <<"pending", "expired">>, <<"confirmed", "expired">>}

\* C1: in every state a Booking has status deposit_paid if and only if a
\* deposit Payment of that Booking has status completed
DepositPaidIffCompleted ==
  \A b \in 1..Len(bookings) :
    bookings[b].status = "deposit_paid"
      <=> \E p \in 1..Len(payments) :
            /\ payments[p].booking = b
            /\ payments[p].type = "deposit"
            /\ payments[p].status = "completed"

\* C2: no two distinct Bookings of one Room are both in a non-terminal
\* status with overlapping [checkIn, checkOut) ranges
NoDoubleBooking ==
  \A i, j \in 1..Len(bookings) :
    (/\ i # j
     /\ bookings[i].room = bookings[j].room
     /\ bookings[i].status \in NonTerminal
     /\ bookings[j].status \in NonTerminal)
      => ~(bookings[i].checkIn < bookings[j].checkOut
           /\ bookings[j].checkIn < bookings[i].checkOut)

\* C3: a valid success payload handled by the IPN leaves the Payment completed
\* with the payload merged and is acknowledged with RspCode 00; when the
\* Payment was already completed the delivery changes no Booking, creates no
\* Notification and changes nothing of a Payment but the merged payload, and
\* when that payload was merged before (a second delivery) it changes nothing
IpnAppliesOnce ==
  (Handled("ipn") /\ last.arg.payload.vnp_ResponseCode = "00") =>
    /\ last.rsp = "00"
    /\ payments[last.arg.id].status = "completed"
    /\ payments[last.arg.id].raw = Raw(last.arg.payload)
    /\ last.notified = <<>>
    /\ last.was # "completed" => "status" \in last.touched.payments
    /\ last.was = "completed" =>
         /\ last.touched.bookings = {}
         /\ last.touched.payments \subseteq {"raw"}
         /\ last.arg.repeat => last.touched.payments = {}

\* C3 witness: the second delivery of a success payload for a deposit Payment
\* whose first delivery moved the Booking to deposit_paid (no return handler
\* has applied a success result: that leaves payment_received notifications)
IpnSecondDelivery ==
  /\ Handled("ipn")
  /\ last.arg.payload.vnp_ResponseCode = "00"
  /\ last.arg.repeat
  /\ last.was = "completed"
  /\ payments[last.arg.id].type = "deposit"
  /\ payments[last.arg.id].paymentMethod = "vnpay"
  /\ bookings[payments[last.arg.id].booking].paymentStatus.deposit.paymentMethod = "vnpay"
  /\ bookings[payments[last.arg.id].booking].status = "deposit_paid"
  /\ \A n \in 1..Len(notifications) : notifications[n].type # "payment_received"

\* C4: after the return handler served a valid success payload for a deposit
\* Payment, the Payment is completed with completedAt and the external
\* transaction id, the Booking is deposit_paid with its deposit paid, and
\* exactly two Notifications were created, for the payer and the recipient
ReturnSuccessEffect ==
  (/\ Handled("return")
   /\ last.arg.payload.vnp_ResponseCode = "00"
   /\ payments[last.arg.id].type = "deposit") =>
    LET payment == payments[last.arg.id]
        booking == bookings[payment.booking]
    IN /\ payment.status = "completed"
       /\ payment.completedAt # 0
       /\ payment.externalTransactionId = last.arg.payload.vnp_TransactionNo
       /\ booking.status = "deposit_paid"
       /\ booking.paymentStatus.deposit.status = "paid"
       /\ last.notified = <<Notify(payment.payer, "payment_received"),
                            Notify(payment.recipient, "payment_received")>>

\* C5: the return handler serving a success payload for a Payment that is
\* already completed rewrites no completion timestamp, changes no Booking and
\* creates no Notification
ReturnSkipsCompleted ==
  (/\ Handled("return")
   /\ last.arg.payload.vnp_ResponseCode = "00"
   /\ last.was = "completed") =>
    /\ last.touched.payments \cap {"processedAt", "completedAt"} = {}
    /\ last.touched.bookings = {}
    /\ last.notified = <<>>

\* C6: a payload whose signature does not verify changes and creates no
\* Payment, Booking or Notification; the return handler redirects to the
\* failure page and the IPN handler answers RspCode 97
BadSignatureNoEffect ==
  (last.op \in {"return", "ipn"} /\ ~last.arg.genuine) =>
    /\ last.touched = Untouched
    /\ last.notified = <<>>
    /\ last.rsp = IF last.op = "return" THEN "Invalid signature" ELSE "97"

\* C6 witness: a forged payload naming a pending Payment was turned down
BadSignatureSeen ==
  /\ last.op \in {"return", "ipn"}
  /\ ~last.arg.genuine
  /\ last.arg.found
  /\ last.was = "pending"

\* C7: after the return handler served a valid payload with a code other
\* than 00 for an existing Payment, the Payment is failed with failedAt set
\* and failureReason the message of the code (for 24 the customer-cancelled
\* message), and no Booking was changed
ReturnFailureEffect ==
  (Handled("return") /\ last.arg.payload.vnp_ResponseCode # "00") =>
    LET payment == payments[last.arg.id]
        code == last.arg.payload.vnp_ResponseCode
    IN /\ payment.status = "failed"
       /\ payment.failedAt # 0
       /\ payment.failureReason = last.rsp
       /\ code = "24" => payment.failureReason =
            "Giao dich khong thanh cong do: Khach hang huy giao dich"
       /\ code # "24" => payment.failureReason = "Loi khong xac dinh"
       /\ last.touched.bookings = {}
       /\ last.notified = <<>>

\* C7 witness: the customer cancelled the payment of a deposit at the gateway
ReturnCancelledSeen ==
  /\ Handled("return")
  /\ last.arg.payload.vnp_ResponseCode = "24"
  /\ last.was = "pending"
  /\ payments[last.arg.id].type = "deposit"
  /\ bookings[payments[last.arg.id].booking].status = "pending"

\* C8: the return handler never leaves the Booking saved as deposit_paid
\* while the Payment it applied the success result to is still pending
ReturnCommitsPayment ==
  (/\ Handled("return")
   /\ last.arg.payload.vnp_ResponseCode = "00"
   /\ payments[last.arg.id].type = "deposit") =>
    ~(/\ bookings[payments[last.arg.id].booking].status = "deposit_paid"
      /\ payments[last.arg.id].status = "pending")

\* C9: a Booking whose status is cancelled or expired keeps that status in
\* every step
TerminalIsFinal ==
  [][\A b \in 1..Len(bookings) :
       bookings[b].status \in {"cancelled", "expired"}
         => bookings'[b].status = bookings[b].status]_vars

\* C10: every change of a Booking's status is an edge of the state diagram,
\* and a setStatus request that is served asked for such an edge
OnlyDiagramEdges ==
  [][/\ \A b \in 1..Len(bookings) :
          bookings'[b].status # bookings[b].status
            => <<bookings[b].status, bookings'[b].status>> \in Edges
     /\ (last'.op = "setStatus" /\ last'.rsp \in {"200", "500"})
          => <<last'.was, last'.arg.body.status>> \in Edges]_vars

\* the request just served passed the handler's checks and reached its saves
Served == last.rsp \in {"200", "201", "500"}

Cancellable == {"pending", "confirmed", "deposit_paid"}

\* C11: cancel, and setStatus with target cancelled, on a Booking whose status
\* is not pending, confirmed or deposit_paid fails with an error and leaves
\* Bookings, Payments and Notifications unchanged
CancelNeedsCancellable ==
  (last.op \in {"cancel", "setStatus"} /\ last.was \notin Cancellable) =>
    IF Served
    THEN last.op = "setStatus" /\ last.arg.body.status # "cancelled"
    ELSE /\ last.rsp \in {"400", "403", "400_invalid", "400_confirm", "400_cancel"}
         /\ last.touched = Untouched
         /\ last.notified = <<>>

\* C11 witness: cancel was refused on a completed Booking
CancelRefusedSeen ==
  /\ last.op = "cancel"
  /\ last.was = "completed"
  /\ last.rsp = "400"
  /\ \E b \in 1..Len(bookings) : bookings[b].status = "completed"

\* the request just served cancelled a Booking, through either route
Cancelling ==
  /\ Served
  /\ \/ last.op = "cancel"
     \/ last.op = "setStatus" /\ last.arg.body.status = "cancelled"

\* C12: a cancellation that is carried out sets status = cancelled and records
\* cancelledBy as the actor's role: admin for the admin, tenant for the
\* Booking's tenant, landlord for the Booking's landlord
CancelledByActor ==
  Cancelling =>
    LET booking == bookings[last.arg.id]
        user == last.arg.user
    IN /\ booking.status = "cancelled"
       /\ last.was \in Cancellable
       /\ user \in {"ad", booking.tenant, booking.landlord}
       /\ booking.cancellation.cancelledBy =
            IF user = "ad" THEN "admin"
            ELSE IF user = booking.tenant THEN "tenant" ELSE "landlord"

\* C12 witness: the landlord cancelled a confirmed Booking through cancel
LandlordCancelSeen ==
  /\ last.op = "cancel"
  /\ last.rsp = "200"
  /\ last.was = "confirmed"
  /\ last.arg.user = bookings[last.arg.id].landlord
  /\ bookings[last.arg.id].cancellation.cancelledBy = "landlord"

\* C13: after a cancellation was carried out, no Payment of the cancelled
\* Booking is pending
CancelFailsPendingPayments ==
  (Cancelling /\ last.rsp = "200") =>
    \A p \in 1..Len(payments) :
      payments[p].booking = last.arg.id => payments[p].status # "pending"

\* C14: a transition asked for again on a Booking that is already in its
\* target status (confirm on confirmed, setStatus deposit_paid on
\* deposit_paid, setStatus active on active, cancel on cancelled) fails with
\* an error, changes no Booking or Payment and creates no Notification
RepeatedTransitionFails ==
  /\ (\/ last.op = "confirm" /\ last.was = "confirmed"
      \/ last.op = "cancel" /\ last.was = "cancelled")
       => ~Served /\ last.touched = Untouched /\ last.notified = <<>>
  /\ ~(/\ last.op = "setStatus"
       /\ Served
       /\ last.was \in {"deposit_paid", "active"}
       /\ last.arg.body.status = last.was)

\* C15: confirm is carried out exactly when the Booking is pending and the
\* caller is its landlord or an admin, and then the Booking is confirmed and
\* one Notification goes to the tenant; otherwise it fails and changes no
\* Booking, Payment or Notification
ConfirmExactlyWhen ==
  last.op = "confirm" =>
    IF Served
    THEN /\ last.was = "pending"
         /\ last.arg.user \in {"ad", bookings[last.arg.id].landlord}
         /\ bookings[last.arg.id].status = "confirmed"
         /\ last.rsp = "200" =>
              last.notified = <<Notify(bookings[last.arg.id].tenant, "booking_confirmed")>>
    ELSE /\ ~(last.was = "pending" /\ last.arg.actor \in {"landlord", "admin"})
         /\ last.touched = Untouched
         /\ last.notified = <<>>

\* C16: setStatus changes a Booking only for the admin, the Booking's landlord
\* and the Booking's tenant; for every other caller it fails with the
\* authorization error 403 and changes no Booking, Payment or Notification
SetStatusOnlyByParties ==
  last.op = "setStatus" =>
    IF Served
    THEN LET booking == bookings[last.arg.id]
         IN last.arg.user \in {"ad", booking.landlord, booking.tenant}
    ELSE /\ last.touched = Untouched
         /\ last.notified = <<>>
         /\ last.arg.actor = "stranger" => last.rsp = "403"

\* C16 as amended: the same, but a stranger who asks for a status outside the
\* list of valid statuses gets the validation error 400, which comes before
\* the look at the caller
SetStatusOnlyByPartiesAmended ==
  last.op = "setStatus" =>
    IF Served
    THEN LET booking == bookings[last.arg.id]
         IN last.arg.user \in {"ad", booking.landlord, booking.tenant}
    ELSE /\ last.touched = Untouched
         /\ last.notified = <<>>
         /\ last.arg.actor = "stranger" => last.rsp \in {"403", "400_invalid"}
         /\ last.rsp = "403" => last.arg.actor = "stranger"

\* C16 witness: a stranger asked for a valid status and was turned away
StrangerRefusedSeen ==
  /\ last.op = "setStatus"
  /\ ~Served
  /\ last.arg.actor = "stranger"
  /\ last.rsp = "403"
  /\ last.was = "confirmed"

\* C17: every Booking has at most one Payment of type deposit
AtMostOneDeposit ==
  \A b \in 1..Len(bookings) :
    Cardinality({p \in 1..Len(payments) :
                   payments[p].booking = b /\ payments[p].type = "deposit"}) <= 1

\* C18: the Payments a listing request creates are completed deposit Payments
\* of deposit_paid Bookings that had no Payment at all before the request
BackfillOnlyMissing ==
  last.op = "list" =>
    LET first == Len(payments) - last.arg.created + 1
    IN \A p \in first..Len(payments) :
         /\ payments[p].type = "deposit"
         /\ payments[p].status = "completed"
         /\ bookings[payments[p].booking].status = "deposit_paid"
         /\ \A q \in 1..(first - 1) : payments[q].booking # payments[p].booking

\* C19: a create that is carried out was for a room that is active and
\* available and not the caller's own, with no other Booking of the room in
\* status pending, confirmed, deposit_paid or active such that
\* existing.checkIn <= new.checkOut and existing.checkOut >= new.checkIn;
\* a create that fails persists no Booking, Payment or Notification
CreatePreconditions ==
  last.op = "create" =>
    IF Served
    THEN LET new == bookings[last.arg.id]
             room == Room(new.room)
         IN /\ room.status = "active"
            /\ room.isAvailable
            /\ room.landlord # new.tenant
            /\ \A j \in 1..Len(bookings) \ {last.arg.id} :
                 ~(/\ bookings[j].room = new.room
                   /\ bookings[j].status \in NonTerminal
                   /\ bookings[j].checkIn <= new.checkOut
                   /\ bookings[j].checkOut >= new.checkIn)
    ELSE last.touched = Untouched /\ last.notified = <<>>

\* C19 witness: a request whose check-in is the check-out of the only Booking
\* of the room was turned down
TouchingStayRefusedSeen ==
  /\ last.op = "create"
  /\ last.rsp = "400_conflict"
  /\ Len(bookings) = 1
  /\ bookings[1].room = last.arg.room
  /\ bookings[1].checkOut = last.arg.checkIn

\* the months from year 0 to the month of a date
MonthIndex(date) == date.year * 12 + date.month

\* C20: a new Booking of duration d has totalAmount = monthlyRent * d +
\* utilities * d + deposit, and its monthly plan has exactly d entries, each of
\* amount monthlyRent + utilities and status pending, the i-th (from 0) due in
\* the i-th month after the month of the check-in, no later in it than the day
\* of the check-in
MonthlyPlan ==
  last.op = "price" =>
    LET a == last.arg
        d == a.duration
    IN /\ a.totalAmount = a.pricing.monthlyRent * d + a.pricing.utilities * d
                            + a.pricing.deposit
       /\ Len(a.monthly) = d
       /\ \A i \in 0..(d - 1) :
            LET entry == a.monthly[i + 1]
            IN /\ entry.amount = a.pricing.monthlyRent + a.pricing.utilities
               /\ entry.status = "pending"
               /\ MonthIndex(entry.dueDate) = MonthIndex(a.checkInDate) + i
               /\ entry.dueDate.day <= a.checkInDate.day

\* the Payments of a Booking
PaymentsOf(b) == {i \in 1..Len(payments) : payments[i].booking = b}

\* C21: after every successful create the new Booking is pending, it has
\* exactly one Payment, a pending deposit placeholder (paymentMethod pending)
\* of the Booking's deposit, and the request created exactly two
\* Notifications, one for the tenant and one for the landlord
CreateEffect ==
  last.op = "create" /\ last.rsp = "201" =>
    LET id == last.arg.id
        booking == bookings[id]
    IN /\ booking.status = "pending"
       /\ Cardinality(PaymentsOf(id)) = 1
       /\ \A p \in PaymentsOf(id) :
            /\ payments[p].type = "deposit"
            /\ payments[p].status = "pending"
            /\ payments[p].paymentMethod = "pending"
            /\ payments[p].amount = booking.pricing.deposit
       /\ last.notified = <<Notify(booking.tenant, "booking_request"),
                            Notify(booking.landlord, "booking_request")>>

\* C22: every completed Payment has completedAt set, and the Booking of a
\* completed deposit Payment has paymentStatus.deposit.status paid
CompletedPaymentsSettled ==
  \A p \in 1..Len(payments) :
    payments[p].status = "completed" =>
      /\ payments[p].completedAt # 0
      /\ payments[p].type = "deposit" =>
           bookings[payments[p].booking].paymentStatus.deposit.status = "paid"

\* C23: processRefund succeeds exactly for a completed Payment with no refund
\* in progress, and a refused call leaves the Payment's refund and status as
\* they were
RefundOnlyCompleted ==
  last.op = "refund" =>
    LET payment == payments[last.arg.id]
        refundable == last.was = "completed" /\ last.arg.refund.status # "processing"
    IN /\ last.rsp = "saved" <=> refundable
       /\ ~refundable => payment.refund = last.arg.refund /\ payment.status = last.was

\* C24: every IPN invocation ends with one ack whose code tells the outcome:
\* 97 exactly for a signature that does not verify, 01 exactly for a verified
\* payload whose reference matches no Payment, 99 exactly when the handler
\* failed on the way, and 00 only with the Payment carrying the payload and
\* the status of its result
IpnAcks ==
  last.op = "ipn" =>
    /\ last.rsp \in {"00", "01", "97", "99"}
    /\ last.rsp = "97" <=> ~last.arg.genuine
    /\ last.rsp = "01" <=> last.arg.genuine /\ ~last.arg.found
    /\ last.rsp = "99" <=> Handled("ipn") /\ last.arg.store = "down"
    /\ last.rsp = "00" =>
         /\ Handled("ipn")
         /\ payments[last.arg.id].raw = Raw(last.arg.payload)
         /\ payments[last.arg.id].status =
              IF last.arg.payload.vnp_ResponseCode = "00" THEN "completed" ELSE "failed"

\* C24 witness: the save of a pending Payment failed under a success payload
\* and the IPN answered 99
IpnInternalErrorSeen ==
  /\ last.op = "ipn"
  /\ last.rsp = "99"
  /\ last.was = "pending"
  /\ last.arg.payload.vnp_ResponseCode = "00"

\* C25: every invocation of the return handler ends with one redirect: to the
\* success page exactly when a verified success payload found its Payment and
\* nothing failed on the way, and otherwise to the failure page, with the
\* message of the signature check, of the lookup, of the exception caught or
\* of the gateway's response code
ReturnRedirects ==
  last.op = "return" =>
    /\ last.rsp = "success" <=>
         /\ Handled("return")
         /\ last.arg.payload.vnp_ResponseCode = "00"
         /\ last.arg.sink = "ok"
    /\ last.rsp # "success" =>
         last.rsp =
           IF ~last.arg.genuine THEN "Invalid signature"
           ELSE IF ~last.arg.found THEN "Payment not found"
           ELSE IF last.arg.sink # "ok" THEN "Payment processing error"
           ELSE getResponseMessage(last.arg.payload.vnp_ResponseCode)

\* C25 witness: saving the notifications of a success result failed and the
\* return handler redirected to the failure page
ReturnErrorRedirectSeen ==
  /\ Handled("return")
  /\ last.arg.sink = "down"
  /\ last.rsp = "Payment processing error"
  /\ last.was = "pending"

\* C26: verify returns true exactly when the supplied vnp_SecureHash is the
\* HMAC, under the shared secret, of the canonical string of the remaining
\* parameters; and after a change of the vnp_SecureHash value, or of the value
\* of one remaining parameter, of an accepted payload, verify returns false
VerifyDetectsChange ==
  (last.op = "verify" /\ last.arg.config.hashSecret = hashSecret) =>
    LET changed == last.arg.changed
    IN /\ last.rsp = "true" <=>
            /\ ~changed.vnp_SecureHash.array
            /\ changed.vnp_SecureHash.digest =
                 HMAC(hashSecret, stringify(sortObject(changed.params)))
       /\ last.was = "true" => last.rsp = "false"

\* C27: the canonical form lists its keys in ascending lexicographic order
\* whatever the insertion order of the input, and signing one set of
\* key/value pairs in two insertion orders yields the same hash
SigningCanonical ==
  last.op = "sign" =>
    LET keys == last.arg.keys
    IN /\ \A i, j \in 1..Len(keys) : i < j => Before(keys[i], keys[j])
       /\ last.arg.hashes[1] = last.arg.hashes[2]

\* C27 as the code has it: the canonical form lists the keys that are integer
\* indices first, in ascending numeric order, and then the other keys in
\* ascending lexicographic order, whatever the insertion order of the input,
\* and signing one set of key/value pairs in two insertion orders yields the
\* same hash
SigningCanonicalAmended ==
  last.op = "sign" =>
    LET keys == last.arg.keys
    IN /\ \A i, j \in 1..Len(keys) : i < j =>
            IF IsIndex(keys[i]) /\ IsIndex(keys[j]) THEN IndexBefore(keys[i], keys[j])
            ELSE IF IsIndex(keys[i]) \/ IsIndex(keys[j]) THEN IsIndex(keys[i])
            ELSE Before(keys[i], keys[j])
       /\ last.arg.hashes[1] = last.arg.hashes[2]

\* C27 witness: two parameters inserted in descending order of their keys,
\* and then in ascending order, were signed
SignedBothOrdersSeen ==
  /\ last.op = "sign"
  /\ Len(last.arg.first) = 2
  /\ last.arg.first # last.arg.second
  /\ Before(last.arg.first[2].key, last.arg.first[1].key)
  /\ ~IsIndex(last.arg.first[1].key)

\* C28: when the shared secret or the merchant code is not set,
\* createPaymentUrl returns no URL carrying a signature and verify returns
\* true for no payload
UnsetFailsClosed ==
  (/\ last.op \in {"createPaymentUrl", "verify"}
   /\ (last.arg.config.hashSecret = None \/ last.arg.config.tmnCode = None)) =>
    IF last.op = "verify" THEN last.rsp # "true" /\ last.was # "true"
    ELSE last.rsp # "url"

\* C29: Bookings and Payments are never deleted: in every step the stored
\* Bookings and Payments keep their ids and the parties they belong to, and
\* the sets of their ids only grow
NeverDeleted ==
  [][/\ Len(bookings') >= Len(bookings)
     /\ Len(payments') >= Len(payments)
     /\ \A b \in 1..Len(bookings) :
          /\ bookings'[b].room = bookings[b].room
          /\ bookings'[b].tenant = bookings[b].tenant
     /\ \A p \in 1..Len(payments) :
          /\ payments'[p].booking = payments[p].booking
          /\ payments'[p].payer = payments[p].payer]_vars

\* C29 witness: after a cancellation the cancelled Booking and its failed
\* Payment are still stored
CancelledKeptSeen ==
  /\ last.op = "cancel"
  /\ Served
  /\ bookings[last.arg.id].status = "cancelled"
  /\ \E p \in 1..Len(payments) :
       payments[p].booking = last.arg.id /\ payments[p].status = "failed"

\* C30: a confirm that succeeds leaves every deposit Payment of the Booking
\* that was pending with status completed, completedAt set and paymentMethod
\* bank_transfer, and leaves every Payment that was not pending, or is not a
\* deposit, as it was
ConfirmCompletesDeposit ==
  [][(last'.op = "confirm" /\ last'.rsp = "200") =>
       \A p \in 1..Len(payments) :
         payments[p].booking = last'.arg.id =>
           IF payments[p].type = "deposit" /\ payments[p].status = "pending"
           THEN /\ payments'[p].status = "completed"
                /\ payments'[p].completedAt # 0
                /\ payments'[p].paymentMethod = "bank_transfer"
           ELSE payments'[p] = payments[p]]_vars

\* C31: a setStatus that moves a Booking to deposit_paid from another status
\* leaves the Booking with paymentStatus.deposit.status paid and a deposit
\* Payment of the Booking completed with the caller's method, or bank_transfer
\* when the caller gave none; a deposit Payment that existed is reused, no
\* second one is created
SetStatusDepositPaid ==
  [][(/\ last'.op = "setStatus"
      /\ last'.rsp \in {"200", "500"}
      /\ last'.arg.body.status = "deposit_paid"
      /\ last'.was # "deposit_paid") =>
       LET id == last'.arg.id
           method == IF last'.arg.body.paymentMethod # None
                     THEN last'.arg.body.paymentMethod ELSE "bank_transfer"
           before == {p \in 1..Len(payments) :
                        payments[p].booking = id /\ payments[p].type = "deposit"}
           after == {p \in 1..Len(payments') :
                       payments'[p].booking = id /\ payments'[p].type = "deposit"}
       IN /\ bookings'[id].status = "deposit_paid"
          /\ bookings'[id].paymentStatus.deposit.status = "paid"
          /\ \E p \in after : /\ payments'[p].status = "completed"
                              /\ payments'[p].paymentMethod = method
          /\ before # {} => after = before]_vars

\* the cancellation records a request served at the current time may leave
Cancellations ==
  [cancelledBy : {None, "admin", "tenant", "landlord"}, cancelledAt : 0..now,
   reason : Reasons \cup {DefaultReason}]

\* C32: cancel and setStatus with target cancelled, started from the same
\* state with the same actor and the same reason, can leave the same Booking
\* statuses, the same cancellation records, the same Payment statuses and the
\* same sets of Notification recipients
CancelRoutesEquivalent ==
  last.op = "idle" =>
    \A user \in Users, id \in 1..Len(bookings), reason \in Reasons :
      /\ \A status \in BookingStatuses :
           ENABLED (/\ CancelBooking(user, id, reason)
                    /\ bookings'[id].status = status)
             <=> ENABLED (/\ SetBookingStatus(user, id, CancelledBody(reason))
                          /\ bookings'[id].status = status)
      /\ \A cancellation \in Cancellations :
           ENABLED (/\ CancelBooking(user, id, reason)
                    /\ bookings'[id].cancellation = cancellation)
             <=> ENABLED (/\ SetBookingStatus(user, id, CancelledBody(reason))
                          /\ bookings'[id].cancellation = cancellation)
      /\ \A p \in 1..Len(payments), status \in PaymentStatuses :
           ENABLED (/\ CancelBooking(user, id, reason)
                    /\ payments'[p].status = status)
             <=> ENABLED (/\ SetBookingStatus(user, id, CancelledBody(reason))
                          /\ payments'[p].status = status)
      /\ \A recipients \in SUBSET Users :
           ENABLED (/\ CancelBooking(user, id, reason)
                    /\ {last'.notified[n].recipient :
                          n \in 1..Len(last'.notified)} = recipients)
             <=> ENABLED (/\ SetBookingStatus(user, id, CancelledBody(reason))
                          /\ {last'.notified[n].recipient :
                                n \in 1..Len(last'.notified)} = recipients)

\* the paymentStatus.deposit records a callback served now may leave
Deposits ==
  {bookings[b].paymentStatus.deposit : b \in 1..Len(bookings)}
  \cup {PaidDeposit(payments[p].amount, method, TransactionId(p)) :
          p \in 1..Len(payments), method \in PaymentMethods}

\* C33: the return handler and the IPN handler, given the same validly signed
\* success payload in the same state and with no failure on the way, can leave
\* the same Payment statuses, the same Booking statuses and the same
\* paymentStatus.deposit; and for a deposit Payment whose Booking is in a
\* non-terminal status both leave the Booking deposit_paid
CallbacksEquivalent ==
  (last.op = "idle" /\ budget > 0) =>
    \A q \in SuccessPayloads :
      /\ \A p \in 1..Len(payments), status \in PaymentStatuses :
           ENABLED (/\ ReturnHandler(q)
                    /\ faults' = faults
                    /\ payments'[p].status = status)
             <=> ENABLED (/\ IpnHandler(q, "ok")
                          /\ payments'[p].status = status)
      /\ \A b \in 1..Len(bookings), status \in BookingStatuses :
           ENABLED (/\ ReturnHandler(q)
                    /\ faults' = faults
                    /\ bookings'[b].status = status)
             <=> ENABLED (/\ IpnHandler(q, "ok")
                          /\ bookings'[b].status = status)
      /\ \A b \in 1..Len(bookings), deposit \in Deposits :
           ENABLED (/\ ReturnHandler(q)
                    /\ faults' = faults
                    /\ bookings'[b].paymentStatus.deposit = deposit)
             <=> ENABLED (/\ IpnHandler(q, "ok")
                          /\ bookings'[b].paymentStatus.deposit = deposit)
      /\ \A p \in 1..Len(payments) :
           (/\ payments[p].txnRef = q.vnp_TxnRef
            /\ payments[p].type = "deposit"
            /\ bookings[payments[p].booking].status \in NonTerminal) =>
             /\ ~ENABLED (/\ ReturnHandler(q)
                          /\ faults' = faults
                          /\ bookings'[payments[p].booking].status # "deposit_paid")
             /\ ~ENABLED (/\ IpnHandler(q, "ok")
                          /\ bookings'[payments[p].booking].status # "deposit_paid")

\* C34: no gateway callback, return or IPN, with a success or a failure
\* code, changes the status of a Payment that is completed
CompletedStaysCompleted ==
  [][last'.op \in {"return", "ipn"} =>
       \A p \in 1..Len(payments) :
         payments[p].status = "completed" => payments'[p].status = "completed"]_vars

\* the handlers in flight that wrote the path to the collection
Writers(collection, path) ==
  {i \in 1..Len(last.arg.handlers) : path \in last.arg.handlers[i].wrote[collection]}

\* C35: when two callbacks for one success payload, the return handler and the
\* IPN handler or two IPN deliveries, have run interleaved at their reads and
\* writes, the Payment is completed and only one of them wrote the completion
\* timestamp, only one wrote the Booking's status and paymentStatus.deposit,
\* and the payer and the recipient were notified at most once
CallbacksAdvanceOnce ==
  (last.op = "callbacks" /\ Finished) =>
    /\ \A i \in 1..2 : last.arg.handlers[i].p # 0 =>
         payments[last.arg.handlers[i].p].status = "completed"
    /\ Cardinality(Writers("payment", "completedAt")) <= 1
    /\ Cardinality(Writers("booking", "status")) <= 1
    /\ Cardinality(Writers("booking", "paymentStatus")) <= 1
    /\ Len(last.notified) <= 2

SinkFailureContained ==
  (/\ last.op \in {"create", "confirm", "setStatus", "cancel"}
   /\ Served
   /\ last.arg.sink = "down") =>
    /\ last.rsp = IF last.op = "create" THEN "201" ELSE "200"
    /\ bookings[last.arg.id].status =
         CASE last.op = "create" -> "pending"
           [] last.op = "confirm" -> "confirmed"
           [] last.op = "cancel" -> "cancelled"
           [] last.op = "setStatus" -> last.arg.body.status
    /\ last.op = "create" =>
         \E p \in PaymentsOf(last.arg.id) :
           /\ payments[p].type = "deposit"
           /\ payments[p].status = "pending"

\* C38: the IPN handler changes a Booking only when the Payment it found is a
\* deposit Payment that was not completed, the response code is 00 and the
\* Booking, the Payment's own, is confirmed; in every other case every Booking
\* is left as it was
IpnChangesBookingOnlyWhen ==
  [][last'.op = "ipn" =>
       \A b \in 1..Len(bookings) :
         bookings'[b] # bookings[b] =>
           /\ Handled("ipn")'
           /\ payments[last'.arg.id].booking = b
           /\ payments[last'.arg.id].type = "deposit"
           /\ payments[last'.arg.id].status # "completed"
           /\ last'.arg.payload.vnp_ResponseCode = "00"
           /\ bookings[b].status = "confirmed"]_vars

\* C38 witness: the IPN handler completed the deposit Payment of a pending
\* Booking and left the Booking pending
IpnLeftPendingBookingSeen ==
  /\ Handled("ipn")
  /\ last.rsp = "00"
  /\ last.was = "pending"
  /\ payments[last.arg.id].status = "completed"
  /\ payments[last.arg.id].type = "deposit"
  /\ bookings[payments[last.arg.id].booking].status = "pending"
  /\ last.touched.bookings = {}

\* C39: the payment confirmation is carried out only for a Payment that exists
\* and is pending and only for the admin or the Payment's recipient; a request
\* that is refused, for a missing Payment, another actor or a Payment in
\* another status, changes no Payment or Booking and creates no Notification
PaymentConfirmPreconditions ==
  last.op = "paymentConfirm" =>
    IF Served
    THEN /\ last.arg.id \in 1..Len(payments)
         /\ last.was = "pending"
         /\ last.arg.user \in {"ad", payments[last.arg.id].recipient}
         /\ last.rsp = "200" => payments[last.arg.id].status = "completed"
    ELSE /\ last.rsp \in {"400", "403", "404"}
         /\ last.rsp = "400" => last.was # "pending"
         /\ last.touched = Untouched
         /\ last.notified = <<>>

\* C39 witness: the confirmation of a Payment that is already completed was
\* refused
PaymentConfirmRefusedSeen ==
  /\ last.op = "paymentConfirm"
  /\ last.rsp = "400"
  /\ last.was = "completed"
  /\ \E p \in 1..Len(payments) : payments[p].status = "completed"

====
